---- MODULE Spec2Model ----
(***************************************************************************)
(* State-machine model of src/src/electron/network.js (class Network) and  *)
(* of the start-up call in src/unnamed/part_000 (network.init()).          *)
(*                                                                         *)
(* One action is one run of JavaScript between two suspension points: the  *)
(* arrival of an IPC request (the router's gate plus the handler up to its *)
(* first await), the resumption of a handler after an await, one iteration *)
(* step of a supervisor loop, or an event of a collaborator (protocol,     *)
(* swarm, storage, timer).                                                 *)
(***************************************************************************)
EXTENDS Integers, Sequences, FiniteSets, TLC

\* ------------------------------------------------------------- bounds
\* Number of key pairs (an identity and its channel share the key).
NumKeys == 2
\* Number of IPC requests the front end issues in one run.
MaxSeq == 4
\* Number of IPC requests in a run that starts with the start-up.
MaxBootSeq == 3
\* Largest message count / read count of a channel.
MaxCount == 2

Keys == 1..NumKeys
Seqs == 1..MaxSeq
\* Who waits on the wait list: 0 is Network.init(), s > 0 the handler of
\* request s.
NetInit == 0

\* A channel name is the sequence of its '-'-separated parts: <<1>> is
\* "general", <<1, 1>> is "general-1", <<1, 1, 2>> is "general-1-2".
NoName == << >>
General == <<1>>

\* Values carried by promises and responses: a tag and a number.
V(t, n) == [t |-> t, n |-> n]
Undefined == V("undefined", 0)

VARIABLES
  netPc,            \* Network.init(): new, opening, waitInit, wokenInit, done
  isReady,          \* this.isReady
  stored,           \* key pairs persisted in this.storage
  channels,         \* this.peerLinks.channels (by channel id)
  chanName,         \* channel.name of each channel
  identities,       \* this.peerLinks.identities (by public key)
  usedKeys,         \* keys that belonged to a channel or identity
  updateLoops,      \* this.updateLoops: channels with a registry entry
  loopWait,         \* outstanding channel.waitForIncomingMessage() calls
  loopBadge,        \* loop iterations suspended in updateBadge()
  updatedChannels,  \* this.updatedChannels: the dirty flags
  waitList,         \* this.waitList: registered waiters [topic, who]
  closePc,          \* close(): idle, closing, closed (the wait list too)
  pendingInvites,   \* this.pendingInvites
  issued,           \* number of identity.requestInvite() calls so far
  swarmWait,        \* swarm.waitForInvite() of request s
  req,              \* the requests: handler position and promise state
  nextSeq,          \* the next sequence number of the front end
  budget,           \* number of requests the front end issues in this run
  responses,        \* event.reply('response', ...) emitted, by seq tag
  lastResolve,      \* the waitList.resolve() call of the last step, if any
  msgCount,         \* channel.getMessageCount()
  readCount,        \* channel.metadata.readCount (-1: missing)
  badge,            \* last value given to options.setBadgeCount
  chainMapUpdated,  \* this.chainMapUpdated: the chain dirty flag
  chainLoop         \* runChainLoop(): none, waiting, stopped

protoVars == <<stored, channels, chanName, identities, usedKeys>>
\* The persisted entities: channel ids and identity keys.
Stored(chs, ids) == [ch |-> chs, id |-> ids]
loopVars == <<updateLoops, loopWait, loopBadge>>
inviteVars == <<pendingInvites, issued, swarmWait>>
countVars == <<msgCount, readCount>>
seqVars == <<nextSeq, budget>>
chainVars == <<chainMapUpdated, chainLoop>>
vars == <<netPc, isReady, protoVars, loopVars, updatedChannels, waitList,
          closePc, inviteVars, req, seqVars, responses,
          lastResolve, countVars, badge, chainVars>>

\* ---------------------------------------------------------- wait list
\* Topics of this.waitList. An update topic is 'update:' followed by hex
\* digits: the channel id and the spelling of the digits.
Topic(t, id, form) == [t |-> t, id |-> id, form |-> form]
InitTopic == Topic("init", 0, "")
ReadyTopic == Topic("ready", 0, "")
ChainTopic == Topic("chain-map-update", 0, "")

\* channel.id.toString('hex'): lower-case digits.
HexOf(c) == [id |-> c, form |-> "lower"]
\* Buffer.from(id, 'hex') accepts both cases of the digits a-f.
FromHex(h) == h.id
HexForms == {"lower", "upper"}

\* 'update:' + channel.id.toString('hex')
ChannelTopic(c) == Topic("update", HexOf(c).id, HexOf(c).form)
\* 'update:' + channelId.toString('hex'): channelId is the request's string,
\* and String.prototype.toString returns it as it is.
RequestTopic(h) == Topic("update", h.id, h.form)

NoResolve == [called |-> FALSE, topic |-> InitTopic, val |-> Undefined]
Resolved(topic, v) == [called |-> TRUE, topic |-> topic, val |-> v]

\* The entries waitList.resolve(topic, v) takes from the list and resolves.
WLTakeFirst(wl, topic) ==
  LET on == {e \in wl : e.topic = topic}
  IN IF on = {} THEN {}
     ELSE {CHOOSE e \in on : \A f \in on : e.who <= f.who}
WLTake(wl, topic) == {e \in wl : e.topic = topic}

\* waitList.close() was called: waitFor() fails at once from then on.
WLClosed == closePc = "closed"

\* waitList.waitFor(topic, timeout): a new entry.
WLEntry(topic, who) == [topic |-> topic, who |-> who]

\* The requests whose handler is among the resolved entries resume later
\* with the value v.
Wake(rq, taken, v) ==
  [s \in Seqs |->
     IF \E e \in taken : e.who = s
     THEN [rq[s] EXCEPT !.pc = "woken", !.val = v]
     ELSE rq[s]]

\* ------------------------------------------------------------- router
\* The third argument of handle(): lines 112, 116 and 126 pass false.
RequireReadyAll(op) == TRUE
RequireReady(op) == op \notin {"init", "erase", "getStatus"}

\* An invite, as entry.decrypt() returns it.
Invite(name, k) == [channelName |-> name, channelPubKey |-> k]
NoInvite == Invite(NoName, 0)

\* A request: the operation, the handler's position (pc), the payload (ch:
\* channelId, key: identityKey or publicKey, name), the handler's locals
\* (val, inv, name) and how its promise settled (res, val). at records, for
\* a waitForIncomingMessage request, how many messages of its channel the
\* update loop had broadcast when the request was answered.
NoReq == [op |-> "none", pc |-> "none", ch |-> HexOf(0), key |-> 0,
          name |-> NoName, inv |-> NoInvite, val |-> Undefined,
          res |-> "none", at |-> 0]
NewReq(op, ch, key, name) ==
  [op |-> op, pc |-> "start", ch |-> ch, key |-> key, name |-> name,
   inv |-> NoInvite, val |-> Undefined, res |-> "none", at |-> 0]

\* event.reply('response', {seq, payload}) or {seq, error}.
ReplyDropError(out, seq, kind, v) ==
  IF kind = "error" THEN out
  ELSE [out EXCEPT ![seq] = Append(@, [kind |-> kind, val |-> v])]
Reply(out, seq, kind, v) ==
  [out EXCEPT ![seq] = Append(@, [kind |-> kind, val |-> v])]

\* The handler's promise of request s settles: res is the settlement.
Settled(r, kind, v) ==
  [r EXCEPT !.pc = "done", !.res = kind, !.val = v,
            !.at = IF r.op = "waitForIncomingMessage" /\ FromHex(r.ch) \in Keys
                   THEN msgCount[FromHex(r.ch)] - loopBadge[FromHex(r.ch)]
                   ELSE 0]

\* handler(payload).then(reply payload).catch(reply error) for request s,
\* on top of the request table rq.
Finish(rq, s, kind, v) ==
  /\ req' = [rq EXCEPT ![s] = Settled(rq[s], kind, v)]
  /\ responses' = Reply(responses, s, IF kind = "fulfilled" THEN "payload"
                                       ELSE "error", v)

\* The handler of request s suspends at an await.
Suspend(rq, s, pc) ==
  /\ req' = [rq EXCEPT ![s].pc = pc]
  /\ UNCHANGED responses

\* The process runs until part_000 line 78 exits it.
Alive == netPc # "exited"

CanIssue == nextSeq <= budget /\ netPc # "new"

\* ipc.on('network:<type>'): the gate of lines 72-75. A gated request is
\* answered without its handler being called.
Gated(op) == ~isReady /\ RequireReady(op)
NotReady(s, r) ==
  /\ req' = [req EXCEPT ![s] = [r EXCEPT !.pc = "rejected"]]
  /\ responses' = Reply(responses, s, "error", V("Not ready", 0))
  /\ lastResolve' = NoResolve
  /\ UNCHANGED <<chainVars, netPc, isReady, protoVars, loopVars, updatedChannels,
                 waitList, closePc, inviteVars, countVars, badge>>

\* ------------------------------------------------------ BadgeAggregator
Max(a, b) == IF a >= b THEN a ELSE b

\* (channel.metadata && channel.metadata.readCount) || 0
ReadCountOf(rc, c) == IF rc[c] < 0 THEN 0 ELSE rc[c]

UnreadOfNoClamp(mc, rc, c) == mc[c] - ReadCountOf(rc, c)
\* Math.max(messageCount - readCount, 0)
UnreadOf(mc, rc, c) == Max(mc[c] - ReadCountOf(rc, c), 0)

\* updateBadge(): the for-of loop over this.peerLinks.channels.
RECURSIVE UnreadSum(_, _, _)
UnreadSum(chs, mc, rc) ==
  IF chs = {} THEN 0
  ELSE LET c == CHOOSE x \in chs : TRUE
       IN UnreadOf(mc, rc, c) + UnreadSum(chs \ {c}, mc, rc)

\* --------------------------------------------------------- update loop
\* runUpdateLoop(channel), lines 515-521: whether the call goes on to issue
\* channel.waitForIncomingMessage().
LoopStartsNoRegistry(c, chs, loops) == c \in chs
LoopStartsNever(c, chs, loops) == FALSE
LoopStarts(c, chs, loops) == c \in chs /\ c \notin loops

\* The registry and the outstanding waits after runUpdateLoop(c) for every
\* c of cs, called with the channel list chs.
LoopsAfter(cs, chs, loops) ==
  loops \cup {c \in cs : LoopStarts(c, chs, loops)}
WaitsAfter(cs, chs, loops, lw) ==
  [c \in Keys |-> IF c \in cs /\ LoopStarts(c, chs, loops)
                  THEN lw[c] + 1 ELSE lw[c]]

\* ------------------------------------------------------ pending invites
\* An entry of this.pendingInvites (lines 298-305): has is Map.has(key),
\* waiter the request whose swarm wait entry.waiter refers to (0: null).
NoPending == [has |-> FALSE, requestId |-> 0, encoded |-> V("b58", 0),
              waiter |-> 0]
\* bs58.encode(request) of the request that identity.requestInvite() made
\* for requestId.
Encode(requestId) == V("b58", requestId)

\* ---------------------------------------------------------------- Init
\* The state after `new Network(ipc, options)` (constructor, lines 16-47).
\* The database holds nothing, or the key pair 1 with its channel "general".
InitStored == {Stored({}, {}), Stored({1}, {1})}

Init ==
  /\ netPc = "new"
  /\ isReady = FALSE
  /\ stored \in InitStored
  /\ channels = {}
  /\ chanName = [k \in Keys |-> IF k \in stored.ch THEN General ELSE NoName]
  /\ identities = {}
  /\ usedKeys = stored.ch \cup stored.id
  /\ updateLoops = {}
  /\ loopWait = [k \in Keys |-> 0]
  /\ loopBadge = [k \in Keys |-> 0]
  /\ updatedChannels = {}
  /\ waitList = {}
  /\ closePc = "idle"
  /\ pendingInvites = [k \in Keys |-> NoPending]
  /\ issued = 0
  /\ swarmWait = [s \in Seqs |-> "none"]
  /\ req = [s \in Seqs |-> NoReq]
  /\ nextSeq = 1
  /\ budget = MaxBootSeq
  /\ responses = [s \in Seqs |-> << >>]
  /\ lastResolve = NoResolve
  /\ msgCount = [k \in Keys |-> 0]
  /\ readCount = [k \in Keys |-> -1]
  /\ badge = 0
  /\ chainMapUpdated = FALSE
  /\ chainLoop = "none"

\* ------------------------------------------------------- Network.init()
\* Lines 50-51: the storage object is created and storage.open() awaited.
\* part_000 line 74 calls init() in the tick that constructs the object.
NetInitStart ==
  /\ Alive
  /\ netPc = "new"
  /\ netPc' = "opening"
  /\ lastResolve' = NoResolve
  /\ UNCHANGED <<chainVars, isReady, protoVars, loopVars, updatedChannels, waitList,
                 closePc, inviteVars, req, seqVars, responses, countVars,
                 badge>>

\* Line 53: storage.open() returned; init() waits on the topic 'init'. On a
\* closed wait list the wait fails, init() rejects and part_000 line 78
\* exits the process.
NetWaitInit ==
  /\ Alive
  /\ netPc = "opening"
  /\ IF WLClosed
     THEN netPc' = "exited" /\ UNCHANGED waitList
     ELSE /\ netPc' = "waitInit"
          /\ waitList' = waitList \cup {WLEntry(InitTopic, NetInit)}
  /\ lastResolve' = NoResolve
  /\ UNCHANGED <<chainVars, isReady, protoVars, loopVars, updatedChannels, closePc,
                 inviteVars, req, seqVars, responses, countVars, badge>>

\* Lines 53-62: init() resumes with the loaded protocol object, starts a
\* loop per channel and the chain loop, and resolves 'ready' before it sets
\* isReady.
NetReady ==
  /\ Alive
  /\ netPc = "wokenInit"
  /\ netPc' = "done"
  /\ updateLoops' = LoopsAfter(channels, channels, updateLoops)
  /\ loopWait' = WaitsAfter(channels, channels, updateLoops, loopWait)
  /\ LET taken == WLTake(waitList, ReadyTopic)
     IN /\ waitList' = waitList \ taken
        /\ req' = Wake(req, taken, Undefined)
  /\ chainLoop' = "waiting"
  /\ lastResolve' = Resolved(ReadyTopic, Undefined)
  /\ isReady' = TRUE
  /\ UNCHANGED <<protoVars, loopBadge, updatedChannels, closePc, inviteVars,
                 seqVars, responses, countVars, badge, chainMapUpdated>>

\* ------------------------------------------------------- handle('init')
\* Lines 90-100: an init request arrives.
ReqInit ==
  /\ Alive
  /\ CanIssue
  /\ nextSeq' = nextSeq + 1 /\ UNCHANGED budget
  /\ LET s == nextSeq
         r == NewReq("init", HexOf(0), 0, NoName)
         rq == [req EXCEPT ![s] = r]
     IN IF Gated("init") THEN NotReady(s, r)
        ELSE /\ IF isReady THEN Finish(rq, s, "fulfilled", Undefined)
                ELSE Suspend(rq, s, "load")
             /\ lastResolve' = NoResolve
             /\ UNCHANGED <<chainVars, netPc, isReady, protoVars, loopVars,
                            updatedChannels, waitList, closePc, inviteVars,
                            countVars, badge>>

\* Lines 101-107: peerLinks.load() returned ok. A good passphrase resolves
\* 'init' with the loaded object and waits for 'ready'.
InitLoaded(s, ok) ==
  /\ Alive
  /\ req[s].op = "init" /\ req[s].pc = "load"
  /\ IF ~ok
     THEN /\ Finish(req, s, "rejected", V("Invalid passphrase", 0))
          /\ lastResolve' = NoResolve
          /\ UNCHANGED <<netPc, waitList, channels, identities>>
     ELSE LET taken == WLTake(waitList, InitTopic)
              woke == \E e \in taken : e.who = NetInit
          IN /\ netPc' = IF woke THEN "wokenInit" ELSE netPc
             /\ channels' = IF woke THEN stored.ch ELSE channels
             /\ identities' = IF woke THEN stored.id ELSE identities
             /\ lastResolve' = Resolved(InitTopic, V("peerLinks", 0))
             /\ IF WLClosed
                THEN /\ Finish(req, s, "rejected", V("Closed", 0))
                     /\ waitList' = waitList \ taken
                ELSE /\ Suspend(req, s, "waitReady")
                     /\ waitList' = (waitList \ taken)
                                      \cup {WLEntry(ReadyTopic, s)}
  /\ UNCHANGED <<chainVars, isReady, stored, chanName, usedKeys, loopVars,
                 updatedChannels, closePc, inviteVars, seqVars, countVars,
                 badge>>

\* Lines 107-111: 'ready' was resolved; the handler returns the peer id.
InitReturn(s) ==
  /\ Alive
  /\ req[s].op = "init" /\ req[s].pc = "woken"
  /\ Finish(req, s, "fulfilled", V("peerId", 0))
  /\ lastResolve' = NoResolve
  /\ UNCHANGED <<chainVars, netPc, isReady, protoVars, loopVars, updatedChannels,
                 waitList, closePc, inviteVars, seqVars, countVars, badge>>

\* ------------------------------------------------------ handle('erase')
ReqErase ==
  /\ Alive
  /\ CanIssue
  /\ nextSeq' = nextSeq + 1 /\ UNCHANGED budget
  /\ LET s == nextSeq
         r == NewReq("erase", HexOf(0), 0, NoName)
     IN IF Gated("erase") THEN NotReady(s, r)
        ELSE /\ Suspend([req EXCEPT ![s] = r], s, "clear")
             /\ lastResolve' = NoResolve
             /\ UNCHANGED <<chainVars, netPc, isReady, protoVars, loopVars,
                            updatedChannels, waitList, closePc, inviteVars,
                            countVars, badge>>

\* Line 115: storage.clear() returned.
EraseDone(s) ==
  /\ Alive
  /\ req[s].op = "erase" /\ req[s].pc = "clear"
  /\ stored' = Stored({}, {})
  /\ Finish(req, s, "fulfilled", Undefined)
  /\ lastResolve' = NoResolve
  /\ UNCHANGED <<chainVars, netPc, isReady, channels, chanName, identities, usedKeys,
                 loopVars, updatedChannels, waitList, closePc, inviteVars,
                 seqVars, countVars, badge>>

\* -------------------------------------------------- handle('getStatus')
ReqGetStatus ==
  /\ Alive
  /\ CanIssue
  /\ nextSeq' = nextSeq + 1 /\ UNCHANGED budget
  /\ LET s == nextSeq
         r == NewReq("getStatus", HexOf(0), 0, NoName)
     IN IF Gated("getStatus") THEN NotReady(s, r)
        ELSE /\ Suspend([req EXCEPT ![s] = r], s, "count")
             /\ lastResolve' = NoResolve
             /\ UNCHANGED <<chainVars, netPc, isReady, protoVars, loopVars,
                            updatedChannels, waitList, closePc, inviteVars,
                            countVars, badge>>

\* Lines 119-125: storage.getEntityCount() returned; isReady is read now.
StatusDone(s) ==
  /\ Alive
  /\ req[s].op = "getStatus" /\ req[s].pc = "count"
  /\ Finish(req, s, "fulfilled",
            V(IF isReady THEN "status ready" ELSE "status not ready",
              Cardinality(stored.ch) + Cardinality(stored.id)))
  /\ lastResolve' = NoResolve
  /\ UNCHANGED <<chainVars, netPc, isReady, protoVars, loopVars, updatedChannels,
                 waitList, closePc, inviteVars, seqVars, countVars, badge>>

\* ------------------------------------------------------ runUpdateLoop
\* Line 527: the channel's wait returns with a message; line 530 then
\* suspends the iteration in updateBadge().
LoopDelivered(c) ==
  /\ Alive
  /\ loopWait[c] > 0
  /\ msgCount[c] < MaxCount
  /\ msgCount' = [msgCount EXCEPT ![c] = @ + 1]
  /\ loopWait' = [loopWait EXCEPT ![c] = @ - 1]
  /\ loopBadge' = [loopBadge EXCEPT ![c] = @ + 1]
  /\ lastResolve' = NoResolve
  /\ UNCHANGED <<chainVars, netPc, isReady, protoVars, updateLoops, updatedChannels,
                 waitList, closePc, inviteVars, req, seqVars, responses,
                 readCount, badge>>

\* Lines 530-542: updateBadge() returned; the iteration sets the dirty flag,
\* resolves the channel's topic with true, removes the registry entry and
\* calls runUpdateLoop again.
LoopBroadcast(c) ==
  /\ Alive
  /\ loopBadge[c] > 0
  /\ badge' = UnreadSum(channels, msgCount, readCount)
  /\ updatedChannels' = updatedChannels \cup {c}
  /\ LET taken == WLTake(waitList, ChannelTopic(c))
     IN /\ waitList' = waitList \ taken
        /\ req' = Wake(req, taken, V("true", 0))
  /\ lastResolve' = Resolved(ChannelTopic(c), V("true", 0))
  /\ loopBadge' = [loopBadge EXCEPT ![c] = @ - 1]
  /\ updateLoops' = LoopsAfter({c}, channels, updateLoops \ {c})
  /\ loopWait' = WaitsAfter({c}, channels, updateLoops \ {c}, loopWait)
  /\ UNCHANGED <<chainVars, netPc, isReady, protoVars, closePc, inviteVars, seqVars,
                 responses, countVars>>

\* A failed wait that leaves the registry entry in place.
LoopWaitFailsKeepsEntry(c) ==
  /\ Alive
  /\ loopWait[c] > 0
  /\ loopWait' = [loopWait EXCEPT ![c] = @ - 1]
  /\ lastResolve' = NoResolve
  /\ UNCHANGED <<chainVars, netPc, isReady, protoVars, updateLoops, loopBadge,
                 updatedChannels, waitList, closePc, inviteVars, req, seqVars,
                 responses, countVars, badge>>

\* Lines 535-540: the channel's wait fails (channel removed or closed, or a
\* hard error); the registry entry is removed and the loop ends.
LoopWaitFails(c) ==
  /\ Alive
  /\ loopWait[c] > 0
  /\ loopWait' = [loopWait EXCEPT ![c] = @ - 1]
  /\ updateLoops' = updateLoops \ {c}
  /\ lastResolve' = NoResolve
  /\ UNCHANGED <<chainVars, netPc, isReady, protoVars, loopBadge, updatedChannels,
                 waitList, closePc, inviteVars, req, seqVars, responses,
                 countVars, badge>>

\* Lines 530 and 535-540: updateBadge() fails inside the iteration; nothing
\* is flagged or resolved, the registry entry is removed and the loop ends.
LoopBadgeFails(c) ==
  /\ Alive
  /\ loopBadge[c] > 0
  /\ loopBadge' = [loopBadge EXCEPT ![c] = @ - 1]
  /\ updateLoops' = updateLoops \ {c}
  /\ lastResolve' = NoResolve
  /\ UNCHANGED <<chainVars, netPc, isReady, protoVars, loopWait,
                 updatedChannels, waitList, closePc, inviteVars, req, seqVars,
                 responses, countVars, badge>>

\* --------------------------------------- handle('waitForIncomingMessage')
\* Lines 240-257. h is the channelId string of the request.
ReqWaitForIncomingMessage(h) ==
  /\ Alive
  /\ CanIssue
  /\ nextSeq' = nextSeq + 1 /\ UNCHANGED budget
  /\ LET s == nextSeq
         r == NewReq("waitForIncomingMessage", h, 0, NoName)
         rq == [req EXCEPT ![s] = r]
         c == FromHex(h)
     IN IF Gated("waitForIncomingMessage") THEN NotReady(s, r)
        ELSE /\ IF c \notin channels
                THEN /\ Finish(rq, s, "rejected", V("Channel not found", 0))
                     /\ UNCHANGED <<updatedChannels, waitList>>
                ELSE IF c \in updatedChannels
                THEN /\ updatedChannels' = updatedChannels \ {c}
                     /\ Finish(rq, s, "fulfilled", V("true", 0))
                     /\ UNCHANGED waitList
                ELSE IF WLClosed
                THEN /\ Finish(rq, s, "rejected", V("Closed", 0))
                     /\ UNCHANGED <<updatedChannels, waitList>>
                ELSE /\ waitList' = waitList \cup
                                      {WLEntry(RequestTopic(h), s)}
                     /\ Suspend(rq, s, "waitUpdate")
                     /\ UNCHANGED updatedChannels
             /\ lastResolve' = NoResolve
             /\ UNCHANGED <<chainVars, netPc, isReady, protoVars, loopVars, closePc,
                            inviteVars, countVars, badge>>

\* Lines 257-259: the waiter was resolved; the handler clears the flag and
\* returns the value it was resolved with.
WaitForIncomingMessageReturn(s) ==
  /\ Alive
  /\ req[s].op = "waitForIncomingMessage" /\ req[s].pc = "woken"
  /\ updatedChannels' = updatedChannels \ {FromHex(req[s].ch)}
  /\ Finish(req, s, "fulfilled", req[s].val)
  /\ lastResolve' = NoResolve
  /\ UNCHANGED <<chainVars, netPc, isReady, protoVars, loopVars, waitList, closePc,
                 inviteVars, seqVars, countVars, badge>>

\* The timeout of a waitFor(topic, timeout) elapses: the entry leaves the
\* list and the await of line 257 throws, in the same macrotask.
WaitTimeout(s) ==
  /\ Alive
  /\ req[s].pc \in {"waitUpdate", "waitChain"}
  /\ \E e \in waitList : e.who = s
  /\ waitList' = {e \in waitList : e.who # s}
  /\ Finish(req, s, "rejected", V("Timeout", 0))
  /\ lastResolve' = NoResolve
  /\ UNCHANGED <<chainVars, netPc, isReady, protoVars, loopVars, updatedChannels,
                 closePc, inviteVars, seqVars, countVars, badge>>

\* -------------------------------------------------------------- close()
\* Lines 616-624: the collaborators are closed one after the other.
CloseStart ==
  /\ Alive
  /\ closePc = "idle" /\ netPc # "new"
  /\ closePc' = "closing"
  /\ lastResolve' = NoResolve
  /\ UNCHANGED <<chainVars, netPc, isReady, protoVars, loopVars, updatedChannels,
                 waitList, inviteVars, req, seqVars, responses, countVars,
                 badge>>

RECURSIVE ReplyAll(_, _, _, _)
ReplyAll(out, ws, kind, v) ==
  IF ws = {} THEN out
  ELSE LET s == CHOOSE x \in ws : TRUE
       IN ReplyAll(Reply(out, s, kind, v), ws \ {s}, kind, v)

\* close() returning without line 626.
CloseSkipsWaitList ==
  /\ Alive
  /\ closePc = "closing"
  /\ closePc' = "closed"
  /\ lastResolve' = NoResolve
  /\ UNCHANGED <<chainVars, netPc, isReady, protoVars, loopVars,
                 updatedChannels, waitList, inviteVars, req, seqVars,
                 responses, countVars, badge>>

\* Line 626: waitList.close(new Error('Closed')) fails every waiter; each
\* suspended handler throws, and init() rejects (part_000 line 78 exits).
CloseWaitList ==
  /\ Alive
  /\ closePc = "closing"
  /\ closePc' = "closed"
  /\ LET ws == {e.who : e \in waitList} \ {NetInit}
     IN /\ req' = [s \in Seqs |->
                     IF s \in ws
                     THEN Settled(req[s], "rejected", V("Closed", 0))
                     ELSE req[s]]
        /\ responses' = ReplyAll(responses, ws, "error", V("Closed", 0))
  /\ netPc' = IF \E e \in waitList : e.who = NetInit THEN "exited" ELSE netPc
  /\ waitList' = {}
  /\ lastResolve' = NoResolve
  /\ UNCHANGED <<chainVars, isReady, protoVars, loopVars, updatedChannels, inviteVars,
                 seqVars, countVars, badge>>

\* ----------------------------------------- handle('createIdentityPair')
\* this.peerLinks.getChannel(name): the channel of that name, 0 if none.
GetChannel(names, chs, name) ==
  IF \E c \in chs : names[c] = name
  THEN CHOOSE c \in chs : names[c] = name
  ELSE 0

\* Names the front end gives to new identity pairs and feeds.
InputNames == {General, <<2>>}

\* Lines 140-142: the request arrives and the protocol call is awaited.
ReqCreateIdentityPair(name) ==
  /\ Alive
  /\ CanIssue
  /\ nextSeq' = nextSeq + 1 /\ UNCHANGED budget
  /\ LET s == nextSeq
         r == NewReq("createIdentityPair", HexOf(0), 0, name)
     IN IF Gated("createIdentityPair") THEN NotReady(s, r)
        ELSE /\ Suspend([req EXCEPT ![s] = r], s, "create")
             /\ lastResolve' = NoResolve
             /\ UNCHANGED <<chainVars, netPc, isReady, protoVars, loopVars,
                            updatedChannels, waitList, closePc, inviteVars,
                            countVars, badge>>

\* Lines 141-147: peerLinks.createIdentityPair() returned the new identity
\* and its channel (or failed: the name is taken, no key is left);
\* runUpdateLoop(channel) is called and the channel serialized.
CreateIdentityPairDone(s) ==
  /\ Alive
  /\ req[s].op = "createIdentityPair" /\ req[s].pc = "create"
  /\ IF usedKeys = Keys \/ GetChannel(chanName, channels, req[s].name) # 0
     THEN /\ Finish(req, s, "rejected", V("Duplicate", 0))
          /\ UNCHANGED <<protoVars, updateLoops, loopWait>>
     ELSE LET k == CHOOSE x \in Keys \ usedKeys :
                     \A y \in Keys \ usedKeys : x <= y
              chs == channels \cup {k}
          IN /\ channels' = chs
             /\ identities' = identities \cup {k}
             /\ chanName' = [chanName EXCEPT ![k] = req[s].name]
             /\ usedKeys' = usedKeys \cup {k}
             /\ stored' = Stored(stored.ch \cup {k}, stored.id \cup {k})
             /\ updateLoops' = LoopsAfter({k}, chs, updateLoops)
             /\ loopWait' = WaitsAfter({k}, chs, updateLoops, loopWait)
             /\ Suspend([req EXCEPT ![s].val = V("channel", k)], s,
                        "serialize")
  /\ lastResolve' = NoResolve
  /\ UNCHANGED <<chainVars, netPc, isReady, loopBadge, updatedChannels, waitList,
                 closePc, inviteVars, seqVars, countVars, badge>>

\* Lines 145-148, 165 and 380: serializeChannel() returned.
SerializeDone(s) ==
  /\ Alive
  /\ req[s].pc = "serialize"
  /\ Finish(req, s, "fulfilled", req[s].val)
  /\ lastResolve' = NoResolve
  /\ UNCHANGED <<chainVars, netPc, isReady, protoVars, loopVars, updatedChannels,
                 waitList, closePc, inviteVars, seqVars, countVars, badge>>

\* ------------------------------------------ handle('feedFromPublicKey')
\* Lines 151-159: bs58.decode(publicKey) throws on a bad encoding (k = 0);
\* otherwise the protocol call is awaited.
ReqFeedFromPublicKey(k, name) ==
  /\ Alive
  /\ CanIssue
  /\ k \notin usedKeys \ channels
  /\ nextSeq' = nextSeq + 1 /\ UNCHANGED budget
  /\ LET s == nextSeq
         r == NewReq("feedFromPublicKey", HexOf(0), k, name)
         rq == [req EXCEPT ![s] = r]
     IN IF Gated("feedFromPublicKey") THEN NotReady(s, r)
        ELSE /\ IF k = 0
                THEN Finish(rq, s, "rejected",
                            V("Invalid encoding of publicKey", 0))
                ELSE Suspend(rq, s, "feed")
             /\ lastResolve' = NoResolve
             /\ UNCHANGED <<chainVars, netPc, isReady, protoVars, loopVars,
                            updatedChannels, waitList, closePc, inviteVars,
                            countVars, badge>>

\* Lines 159-162: peerLinks.feedFromPublicKey() returned the channel (or
\* failed on a duplicate); the swarm joins it and updateBadge() is awaited.
FeedFromPublicKeyDone(s) ==
  /\ Alive
  /\ req[s].op = "feedFromPublicKey" /\ req[s].pc = "feed"
  /\ LET k == req[s].key
     IN IF \/ k \in usedKeys
           \/ GetChannel(chanName, channels, req[s].name) # 0
        THEN /\ Finish(req, s, "rejected", V("Duplicate", 0))
             /\ UNCHANGED protoVars
        ELSE /\ channels' = channels \cup {k}
             /\ chanName' = [chanName EXCEPT ![k] = req[s].name]
             /\ usedKeys' = usedKeys \cup {k}
             /\ stored' = Stored(stored.ch \cup {k}, stored.id)
             /\ Suspend(req, s, "feedBadge")
             /\ UNCHANGED identities
  /\ lastResolve' = NoResolve
  /\ UNCHANGED <<chainVars, netPc, isReady, loopVars, updatedChannels, waitList,
                 closePc, inviteVars, seqVars, countVars, badge>>

\* Lines 162-165: updateBadge() returned; runUpdateLoop(channel) is called
\* and the channel serialized.
FeedBadgeDone(s) ==
  /\ Alive
  /\ req[s].op = "feedFromPublicKey" /\ req[s].pc = "feedBadge"
  /\ badge' = UnreadSum(channels, msgCount, readCount)
  /\ updateLoops' = LoopsAfter({req[s].key}, channels, updateLoops)
  /\ loopWait' = WaitsAfter({req[s].key}, channels, updateLoops, loopWait)
  /\ Suspend([req EXCEPT ![s].val = V("channel", req[s].key)], s,
             "serialize")
  /\ lastResolve' = NoResolve
  /\ UNCHANGED <<chainVars, netPc, isReady, protoVars, loopBadge, updatedChannels,
                 waitList, closePc, inviteVars, seqVars, countVars>>

\* ----------------------------------------- handle('removeIdentityPair')
\* identityByKey(key): the identity of that public key, 0 if none.
IdentityByKey(ids, key) == IF key \in ids THEN key ELSE 0
\* channelById(id): the channel of that id, 0 if none.
ChannelById(chs, h) == IF FromHex(h) \in chs THEN FromHex(h) ELSE 0

\* Lines 188-193 for request s on top of rq: the identity is looked up and
\* removed if found, then updateBadge() is awaited.
RemoveIdentityStage(rq, s) ==
  IF IdentityByKey(identities, rq[s].key) # 0
  THEN Suspend(rq, s, "removeIdentity")
  ELSE Suspend(rq, s, "removeBadge")

\* Lines 182-186: the request arrives; `channel` is kept in val.
ReqRemoveIdentityPair(h, k) ==
  /\ Alive
  /\ CanIssue
  /\ nextSeq' = nextSeq + 1 /\ UNCHANGED budget
  /\ LET s == nextSeq
         r == NewReq("removeIdentityPair", h, k, NoName)
         c == ChannelById(channels, h)
         rq == [req EXCEPT ![s] = [r EXCEPT !.val = V("channel", c)]]
     IN IF Gated("removeIdentityPair") THEN NotReady(s, r)
        ELSE /\ IF c # 0 THEN Suspend(rq, s, "removeChannel")
                ELSE RemoveIdentityStage(rq, s)
             /\ lastResolve' = NoResolve
             /\ UNCHANGED <<chainVars, netPc, isReady, protoVars, loopVars,
                            updatedChannels, waitList, closePc, inviteVars,
                            countVars, badge>>

\* Line 185: peerLinks.removeChannel(channel) returned.
RemoveChannelDone(s) ==
  /\ Alive
  /\ req[s].op = "removeIdentityPair" /\ req[s].pc = "removeChannel"
  /\ LET c == req[s].val.n
     IN /\ channels' = channels \ {c}
        /\ chanName' = [chanName EXCEPT ![c] = NoName]
        /\ stored' = Stored(stored.ch \ {c}, stored.id)
  /\ RemoveIdentityStage(req, s)
  /\ lastResolve' = NoResolve
  /\ UNCHANGED <<chainVars, netPc, isReady, identities, usedKeys, loopVars,
                 updatedChannels, waitList, closePc, inviteVars, seqVars,
                 countVars, badge>>

\* Line 190: peerLinks.removeIdentity(identity) returned.
RemoveIdentityDone(s) ==
  /\ Alive
  /\ req[s].op = "removeIdentityPair" /\ req[s].pc = "removeIdentity"
  /\ identities' = identities \ {req[s].key}
  /\ stored' = Stored(stored.ch, stored.id \ {req[s].key})
  /\ Suspend(req, s, "removeBadge")
  /\ lastResolve' = NoResolve
  /\ UNCHANGED <<chainVars, netPc, isReady, channels, chanName, usedKeys, loopVars,
                 updatedChannels, waitList, closePc, inviteVars, seqVars,
                 countVars, badge>>

\* Lines 197-202: the waiter of the pending invite of key k is cancelled.
\* cancel() on a wait that has settled does nothing.
CancelPendingNever(pend, sw, k) == sw
CancelPending(pend, sw, k) ==
  IF pend[k].has /\ pend[k].waiter # 0
  THEN [w \in Seqs |-> IF w = pend[k].waiter /\ sw[w] = "pending"
                       THEN "cancelled" ELSE sw[w]]
  ELSE sw

\* Lines 193-203: updateBadge() returned. channel.id throws a TypeError
\* when no channel was found; otherwise the channel's topic is resolved
\* with false and the pending invite's waiter cancelled.
RemoveBadgeDone(s) ==
  /\ Alive
  /\ req[s].op = "removeIdentityPair" /\ req[s].pc = "removeBadge"
  /\ badge' = UnreadSum(channels, msgCount, readCount)
  /\ LET c == req[s].val.n
     IN IF c = 0
        THEN /\ Finish(req, s, "rejected", V("TypeError", 0))
             /\ lastResolve' = NoResolve
             /\ UNCHANGED <<waitList, swarmWait>>
        ELSE LET taken == WLTake(waitList, ChannelTopic(c))
             IN /\ waitList' = waitList \ taken
                /\ lastResolve' = Resolved(ChannelTopic(c), V("false", 0))
                /\ swarmWait' = CancelPending(pendingInvites, swarmWait,
                                              req[s].key)
                /\ Finish(Wake(req, taken, V("false", 0)), s, "fulfilled",
                          Undefined)
  /\ UNCHANGED <<chainVars, netPc, isReady, protoVars, loopVars, updatedChannels,
                 closePc, pendingInvites, issued, seqVars, countVars>>

\* ---------------------------------------------- handle('requestInvite')
\* Line 287: whether the cached request of key k is returned.
HasPendingNever(pend, k) == FALSE
HasPending(pend, k) == pend[k].has

\* Lines 279-310: the handler has no await and settles in the same step.
ReqRequestInvite(k) ==
  /\ Alive
  /\ CanIssue
  /\ nextSeq' = nextSeq + 1 /\ UNCHANGED budget
  /\ LET s == nextSeq
         r == NewReq("requestInvite", HexOf(0), k, NoName)
         rq == [req EXCEPT ![s] = r]
     IN IF Gated("requestInvite") THEN NotReady(s, r)
        ELSE /\ IF IdentityByKey(identities, k) = 0
                THEN /\ Finish(rq, s, "rejected", V("Identity not found", 0))
                     /\ UNCHANGED <<pendingInvites, issued>>
                ELSE IF HasPending(pendingInvites, k)
                THEN /\ Finish(rq, s, "fulfilled", pendingInvites[k].encoded)
                     /\ UNCHANGED <<pendingInvites, issued>>
                ELSE /\ issued' = issued + 1
                     /\ pendingInvites' =
                          [pendingInvites EXCEPT ![k] =
                             [has |-> TRUE, requestId |-> issued + 1,
                              encoded |-> Encode(issued + 1), waiter |-> 0]]
                     /\ Finish(rq, s, "fulfilled", Encode(issued + 1))
             /\ lastResolve' = NoResolve
             /\ UNCHANGED <<chainVars, netPc, isReady, protoVars, loopVars,
                            updatedChannels, waitList, closePc, swarmWait,
                            countVars, badge>>

\* ---------------------------------------------- handle('waitForInvite')
\* Lines 325-327: the wait entry.waiter refers to is cancelled.
CancelWaiterNever(sw, w) == sw
CancelWaiter(sw, w) ==
  [x \in Seqs |-> IF x = w /\ sw[x] = "pending" THEN "cancelled" ELSE sw[x]]

\* Lines 312-333: the request arrives; an earlier waiter is cancelled, a new
\* swarm wait is started and stored in the entry. val keeps `entry`.
ReqWaitForInvite(k) ==
  /\ Alive
  /\ CanIssue
  /\ nextSeq' = nextSeq + 1 /\ UNCHANGED budget
  /\ LET s == nextSeq
         r == NewReq("waitForInvite", HexOf(0), k, NoName)
         rq == [req EXCEPT ![s] = r]
         entry == pendingInvites[k]
     IN IF Gated("waitForInvite") THEN NotReady(s, r)
        ELSE /\ IF IdentityByKey(identities, k) = 0
                THEN /\ Finish(rq, s, "rejected", V("Identity not found", 0))
                     /\ UNCHANGED <<pendingInvites, swarmWait>>
                ELSE IF ~entry.has
                THEN /\ Finish(rq, s, "rejected", V("No pending invites", 0))
                     /\ UNCHANGED <<pendingInvites, swarmWait>>
                ELSE /\ swarmWait' =
                          [CancelWaiter(swarmWait, entry.waiter)
                             EXCEPT ![s] = "pending"]
                     /\ pendingInvites' =
                          [pendingInvites EXCEPT ![k].waiter = s]
                     /\ Suspend([rq EXCEPT ![s].val =
                                   V("entry", entry.requestId)],
                                s, "awaitInvite")
             /\ lastResolve' = NoResolve
             /\ UNCHANGED <<chainVars, netPc, isReady, protoVars, loopVars,
                            updatedChannels, waitList, closePc, issued,
                            countVars, badge>>

\* The swarm hands the accepted invite to the wait of request s.
InviteNames == {General}
SwarmInvite(s, inv) ==
  /\ Alive
  /\ swarmWait[s] = "pending"
  /\ inv.channelPubKey \notin usedKeys \ channels
  /\ swarmWait' = [swarmWait EXCEPT ![s] = "got"]
  /\ req' = [req EXCEPT ![s].inv = inv]
  /\ lastResolve' = NoResolve
  /\ UNCHANGED <<chainVars, netPc, isReady, protoVars, loopVars, updatedChannels,
                 waitList, closePc, pendingInvites, issued, seqVars,
                 responses, countVars, badge>>

\* The swarm wait of request s fails: a timeout or an error of the swarm.
SwarmWaitFails(s) ==
  /\ Alive
  /\ swarmWait[s] = "pending"
  /\ swarmWait' = [swarmWait EXCEPT ![s] = "failed"]
  /\ lastResolve' = NoResolve
  /\ UNCHANGED <<chainVars, netPc, isReady, protoVars, loopVars, updatedChannels,
                 waitList, closePc, pendingInvites, issued, req, seqVars,
                 responses, countVars, badge>>

\* Line 340: `entry.waiter = null` on the entry object the handler read at
\* line 322 (requestId tells the objects apart); an entry that has left the
\* map is not seen again.
ClearWaiterNever(pend, k, requestId) == pend
ClearWaiter(pend, k, requestId) ==
  IF pend[k].has /\ pend[k].requestId = requestId
  THEN [pend EXCEPT ![k].waiter = 0]
  ELSE pend

\* Lines 334-341: the awaited swarm wait rejected (cancelled, or failed); the
\* handler returns false after the finally block.
WaitForInviteAborted(s) ==
  /\ Alive
  /\ req[s].op = "waitForInvite" /\ req[s].pc = "awaitInvite"
  /\ swarmWait[s] \in {"cancelled", "failed"}
  /\ pendingInvites' = ClearWaiter(pendingInvites, req[s].key, req[s].val.n)
  /\ Finish(req, s, "fulfilled", V("false", 0))
  /\ lastResolve' = NoResolve
  /\ UNCHANGED <<chainVars, netPc, isReady, protoVars, loopVars, updatedChannels,
                 waitList, closePc, issued, swarmWait, seqVars, countVars,
                 badge>>

\* `${invite.channelName}-${counter}`
Candidate(name, counter) ==
  IF counter = 0 THEN name ELSE Append(name, counter)

\* Lines 351-358: whether the probing loop stops at the channel `existing`
\* (0: no channel of that name).
ProbeStopsIfFree(existing, key) == existing = 0
ProbeStops(existing, key) == existing = 0 \/ existing = key

\* Lines 346-362: the counter at which the probing loop breaks.
RECURSIVE ProbeFrom(_, _, _, _)
ProbeFrom(names, chs, inv, counter) ==
  IF ProbeStops(GetChannel(names, chs, Candidate(inv.channelName, counter)),
                inv.channelPubKey)
  THEN counter
  ELSE ProbeFrom(names, chs, inv, counter + 1)

\* Lines 333-366: the awaited swarm wait returned the invite; the waiter
\* reference is cleared, the channel name is probed and channelFromInvite()
\* awaited. name keeps channelName.
WaitForInviteAccepted(s) ==
  /\ Alive
  /\ req[s].op = "waitForInvite" /\ req[s].pc = "awaitInvite"
  /\ swarmWait[s] = "got"
  /\ pendingInvites' = ClearWaiter(pendingInvites, req[s].key, req[s].val.n)
  /\ LET counter == ProbeFrom(chanName, channels, req[s].inv, 0)
     IN Suspend([req EXCEPT ![s].name =
                   Candidate(req[s].inv.channelName, counter)],
                s, "fromInvite")
  /\ lastResolve' = NoResolve
  /\ UNCHANGED <<chainVars, netPc, isReady, protoVars, loopVars, updatedChannels,
                 waitList, closePc, issued, swarmWait, seqVars, countVars,
                 badge>>

\* Lines 364-371: peerLinks.channelFromInvite() returned the channel of the
\* invite's key: the existing one, or a new one of the probed name. It fails
\* when the name was taken meanwhile or the channel was removed meanwhile.
ChannelFromInviteDone(s) ==
  /\ Alive
  /\ req[s].op = "waitForInvite" /\ req[s].pc = "fromInvite"
  /\ LET k == req[s].inv.channelPubKey
     IN IF k \in channels
        THEN /\ Suspend(req, s, "saveChannel")
             /\ UNCHANGED protoVars
        ELSE IF \/ k \in usedKeys
                \/ GetChannel(chanName, channels, req[s].name) # 0
        THEN /\ Finish(req, s, "rejected", V("Duplicate", 0))
             /\ UNCHANGED protoVars
        ELSE /\ channels' = channels \cup {k}
             /\ chanName' = [chanName EXCEPT ![k] = req[s].name]
             /\ usedKeys' = usedKeys \cup {k}
             /\ stored' = Stored(stored.ch \cup {k}, stored.id)
             /\ Suspend(req, s, "saveChannel")
             /\ UNCHANGED identities
  /\ lastResolve' = NoResolve
  /\ UNCHANGED <<chainVars, netPc, isReady, loopVars, updatedChannels, waitList,
                 closePc, inviteVars, seqVars, countVars, badge>>

\* Lines 371-372: peerLinks.saveChannel() returned; updateBadge() is awaited.
SaveChannelDone(s) ==
  /\ Alive
  /\ req[s].op = "waitForInvite" /\ req[s].pc = "saveChannel"
  /\ Suspend(req, s, "inviteBadge")
  /\ lastResolve' = NoResolve
  /\ UNCHANGED <<chainVars, netPc, isReady, protoVars, loopVars, updatedChannels,
                 waitList, closePc, inviteVars, seqVars, countVars, badge>>

\* The end of an accepted waitForInvite without line 378.
InviteBadgeDoneKeepsEntry(s) ==
  /\ Alive
  /\ req[s].op = "waitForInvite" /\ req[s].pc = "inviteBadge"
  /\ badge' = UnreadSum(channels, msgCount, readCount)
  /\ LET k == req[s].inv.channelPubKey
     IN /\ updateLoops' = LoopsAfter({k}, channels, updateLoops)
        /\ loopWait' = WaitsAfter({k}, channels, updateLoops, loopWait)
        /\ Suspend([req EXCEPT ![s].val = V("channel", k)], s, "serialize")
  /\ UNCHANGED pendingInvites
  /\ lastResolve' = NoResolve
  /\ UNCHANGED <<chainVars, netPc, isReady, protoVars, loopBadge, updatedChannels,
                 waitList, closePc, issued, swarmWait, seqVars, countVars>>

\* Lines 372-380: updateBadge() returned; the swarm joins the channel,
\* runUpdateLoop(channel) is called, the pending entry of the identity key
\* is deleted and the channel serialized.
InviteBadgeDone(s) ==
  /\ Alive
  /\ req[s].op = "waitForInvite" /\ req[s].pc = "inviteBadge"
  /\ badge' = UnreadSum(channels, msgCount, readCount)
  /\ LET k == req[s].inv.channelPubKey
     IN /\ updateLoops' = LoopsAfter({k}, channels, updateLoops)
        /\ loopWait' = WaitsAfter({k}, channels, updateLoops, loopWait)
        /\ Suspend([req EXCEPT ![s].val = V("channel", k)], s, "serialize")
  /\ pendingInvites' = [pendingInvites EXCEPT ![req[s].key] = NoPending]
  /\ lastResolve' = NoResolve
  /\ UNCHANGED <<chainVars, netPc, isReady, protoVars, loopBadge, updatedChannels,
                 waitList, closePc, issued, swarmWait, seqVars, countVars>>

\* --------------------------------------------------------- runChainLoop
\* The loop body of lines 546-557 without the break of line 553.
ChainUpdatedAnyway(updated) ==
  /\ Alive
  /\ chainLoop # "none"
  /\ IF updated
     THEN LET taken == WLTake(waitList, ChainTopic)
          IN /\ chainMapUpdated' = TRUE
             /\ waitList' = waitList \ taken
             /\ req' = Wake(req, taken, Undefined)
             /\ lastResolve' = Resolved(ChainTopic, Undefined)
     ELSE /\ lastResolve' = NoResolve
          /\ UNCHANGED <<chainMapUpdated, waitList, req>>
  /\ UNCHANGED <<chainLoop, netPc, isReady, protoVars, loopVars,
                 updatedChannels, closePc, inviteVars, seqVars, responses,
                 countVars, badge>>

\* Lines 546-557: peerLinks.waitForChainMapUpdate() returned. On true the
\* chain flag is set and 'chain-map-update' resolved; on false the loop
\* continues. Either way the wait is issued again.
ChainUpdated(updated) ==
  /\ Alive
  /\ chainLoop = "waiting"
  /\ IF updated
     THEN LET taken == WLTake(waitList, ChainTopic)
          IN /\ chainMapUpdated' = TRUE
             /\ waitList' = waitList \ taken
             /\ req' = Wake(req, taken, Undefined)
             /\ lastResolve' = Resolved(ChainTopic, Undefined)
     ELSE /\ lastResolve' = NoResolve
          /\ UNCHANGED <<chainMapUpdated, waitList, req>>
  /\ UNCHANGED <<chainLoop, netPc, isReady, protoVars, loopVars,
                 updatedChannels, closePc, inviteVars, seqVars, responses,
                 countVars, badge>>

\* Lines 551-554: peerLinks.waitForChainMapUpdate() failed; the loop breaks.
ChainLoopFails ==
  /\ Alive
  /\ chainLoop = "waiting"
  /\ chainLoop' = "stopped"
  /\ lastResolve' = NoResolve
  /\ UNCHANGED <<chainMapUpdated, netPc, isReady, protoVars, loopVars,
                 updatedChannels, waitList, closePc, inviteVars, req, seqVars,
                 responses, countVars, badge>>

\* --------------------------------------- handle('waitForChainMapUpdate')
\* Lines 477-489: the request arrives.
ReqWaitForChainMapUpdate ==
  /\ Alive
  /\ CanIssue
  /\ nextSeq' = nextSeq + 1 /\ UNCHANGED budget
  /\ LET s == nextSeq
         r == NewReq("waitForChainMapUpdate", HexOf(0), 0, NoName)
         rq == [req EXCEPT ![s] = r]
     IN IF Gated("waitForChainMapUpdate")
        THEN NotReady(s, r)
        ELSE /\ IF chainMapUpdated
                THEN /\ chainMapUpdated' = FALSE
                     /\ Finish(rq, s, "fulfilled", Undefined)
                     /\ UNCHANGED waitList
                ELSE IF WLClosed
                THEN /\ Finish(rq, s, "rejected", V("Closed", 0))
                     /\ UNCHANGED <<chainMapUpdated, waitList>>
                ELSE /\ waitList' = waitList \cup {WLEntry(ChainTopic, s)}
                     /\ Suspend(rq, s, "waitChain")
                     /\ UNCHANGED chainMapUpdated
             /\ lastResolve' = NoResolve
             /\ UNCHANGED <<chainLoop, netPc, isReady, protoVars, loopVars,
                            updatedChannels, closePc, inviteVars, countVars,
                            badge>>

\* The resumed handler without line 490.
WaitForChainMapUpdateReturnKeepsFlag(s) ==
  /\ Alive
  /\ req[s].op = "waitForChainMapUpdate" /\ req[s].pc = "woken"
  /\ Finish(req, s, "fulfilled", Undefined)
  /\ lastResolve' = NoResolve
  /\ UNCHANGED <<chainVars, netPc, isReady, protoVars, loopVars,
                 updatedChannels, waitList, closePc, inviteVars, seqVars,
                 countVars, badge>>

\* Lines 489-491: the waiter was resolved; the handler clears the flag.
WaitForChainMapUpdateReturn(s) ==
  /\ Alive
  /\ req[s].op = "waitForChainMapUpdate" /\ req[s].pc = "woken"
  /\ chainMapUpdated' = FALSE
  /\ Finish(req, s, "fulfilled", Undefined)
  /\ lastResolve' = NoResolve
  /\ UNCHANGED <<chainLoop, netPc, isReady, protoVars, loopVars,
                 updatedChannels, waitList, closePc, inviteVars, seqVars,
                 countVars, badge>>

\* --------------------------------------------------------------- Spec
HexIds == {[id |-> c, form |-> f] : c \in Keys, f \in HexForms}
Invites == {Invite(n, k) : n \in InviteNames, k \in Keys}

Next ==
  \/ NetInitStart
  \/ NetWaitInit
  \/ NetReady
  \/ ReqInit
  \/ \E s \in Seqs, ok \in BOOLEAN : InitLoaded(s, ok)
  \/ \E s \in Seqs : InitReturn(s)
  \/ ReqErase
  \/ \E s \in Seqs : EraseDone(s)
  \/ ReqGetStatus
  \/ \E s \in Seqs : StatusDone(s)
  \/ \E c \in Keys : LoopDelivered(c)
  \/ \E c \in Keys : LoopBroadcast(c)
  \/ \E c \in Keys : LoopWaitFails(c)
  \/ \E c \in Keys : LoopBadgeFails(c)
  \/ \E h \in HexIds : ReqWaitForIncomingMessage(h)
  \/ \E s \in Seqs : WaitForIncomingMessageReturn(s)
  \/ \E s \in Seqs : WaitTimeout(s)
  \/ \E n \in InputNames : ReqCreateIdentityPair(n)
  \/ \E s \in Seqs : CreateIdentityPairDone(s)
  \/ \E s \in Seqs : SerializeDone(s)
  \/ \E k \in Keys \cup {0}, n \in InputNames : ReqFeedFromPublicKey(k, n)
  \/ \E s \in Seqs : FeedFromPublicKeyDone(s)
  \/ \E s \in Seqs : FeedBadgeDone(s)
  \/ \E h \in HexIds, k \in Keys : ReqRemoveIdentityPair(h, k)
  \/ \E s \in Seqs : RemoveChannelDone(s)
  \/ \E s \in Seqs : RemoveIdentityDone(s)
  \/ \E s \in Seqs : RemoveBadgeDone(s)
  \/ CloseStart
  \/ CloseWaitList

Spec == Init /\ [][Next]_vars

\* ---------------------------------------------------------- SpecInvite
\* The invite coordinator, from the state the start-up reaches with a
\* database that holds the key pair 1 ("general"), alone or with the
\* channel 2 ("general-1").
ReadyChannels == {{1}, {1, 2}}

Ready(requests) ==
  /\ netPc = "done"
  /\ isReady = TRUE
  /\ channels \in ReadyChannels
  /\ identities = {1}
  /\ stored = Stored(channels, identities)
  /\ chanName = [k \in Keys |-> IF k \notin channels THEN NoName
                                ELSE IF k = 1 THEN General
                                ELSE Candidate(General, k - 1)]
  /\ usedKeys = channels \cup identities
  /\ updateLoops = channels
  /\ loopWait = [k \in Keys |-> IF k \in channels THEN 1 ELSE 0]
  /\ loopBadge = [k \in Keys |-> 0]
  /\ updatedChannels = {}
  /\ waitList = {}
  /\ closePc = "idle"
  /\ pendingInvites = [k \in Keys |-> NoPending]
  /\ issued = 0
  /\ swarmWait = [s \in Seqs |-> "none"]
  /\ req = [s \in Seqs |-> NoReq]
  /\ nextSeq = 1
  /\ budget = requests
  /\ responses = [s \in Seqs |-> << >>]
  /\ lastResolve = NoResolve
  /\ msgCount = [k \in Keys |-> 0]
  /\ readCount = [k \in Keys |-> -1]
  /\ badge = 0
  /\ chainMapUpdated = FALSE
  /\ chainLoop = "waiting"

InitReady == Ready(MaxSeq)

NextInvite ==
  \/ \E k \in Keys : ReqRequestInvite(k)
  \/ \E k \in Keys : ReqWaitForInvite(k)
  \/ \E s \in Seqs, inv \in Invites : SwarmInvite(s, inv)
  \/ \E s \in Seqs : SwarmWaitFails(s)
  \/ \E s \in Seqs : WaitForInviteAborted(s)
  \/ \E s \in Seqs : WaitForInviteAccepted(s)
  \/ \E s \in Seqs : ChannelFromInviteDone(s)
  \/ \E s \in Seqs : SaveChannelDone(s)
  \/ \E s \in Seqs : InviteBadgeDone(s)
  \/ \E s \in Seqs : SerializeDone(s)
  \/ \E c \in Keys, k \in Keys : ReqRemoveIdentityPair(HexOf(c), k)
  \/ \E s \in Seqs : RemoveChannelDone(s)
  \/ \E s \in Seqs : RemoveIdentityDone(s)
  \/ \E s \in Seqs : RemoveBadgeDone(s)

SpecInvite == InitReady /\ [][NextInvite]_vars

\* ----------------------------------------------------------- SpecLoops
\* The update loops and everything that starts one, from the state in
\* which the first init request has loaded the database (key pair 1,
\* "general") and resolved 'init', and Network.init() is about to resume.
Loaded(requests) ==
  /\ netPc = "wokenInit"
  /\ isReady = FALSE
  /\ stored = Stored({1}, {1})
  /\ channels = {1}
  /\ identities = {1}
  /\ chanName = [k \in Keys |-> IF k = 1 THEN General ELSE NoName]
  /\ usedKeys = {1}
  /\ updateLoops = {}
  /\ loopWait = [k \in Keys |-> 0]
  /\ loopBadge = [k \in Keys |-> 0]
  /\ updatedChannels = {}
  /\ waitList = {WLEntry(ReadyTopic, 1)}
  /\ closePc = "idle"
  /\ pendingInvites = [k \in Keys |-> NoPending]
  /\ issued = 0
  /\ swarmWait = [s \in Seqs |-> "none"]
  /\ req = [s \in Seqs |-> IF s = 1
                           THEN [NewReq("init", HexOf(0), 0, NoName)
                                   EXCEPT !.pc = "waitReady"]
                           ELSE NoReq]
  /\ nextSeq = 2
  /\ budget = requests
  /\ responses = [s \in Seqs |-> << >>]
  /\ lastResolve = Resolved(InitTopic, V("peerLinks", 0))
  /\ msgCount = [k \in Keys |-> 0]
  /\ readCount = [k \in Keys |-> -1]
  /\ badge = 0
  /\ chainMapUpdated = FALSE
  /\ chainLoop = "none"

InitLoaded1 == Loaded(MaxSeq)

NextLoops ==
  \/ NetReady
  \/ \E s \in Seqs : InitReturn(s)
  \/ \E c \in Keys : LoopDelivered(c)
  \/ \E c \in Keys : LoopBroadcast(c)
  \/ \E c \in Keys : LoopWaitFails(c)
  \/ \E n \in InputNames : ReqCreateIdentityPair(n)
  \/ \E s \in Seqs : CreateIdentityPairDone(s)
  \/ \E k \in Keys, n \in InputNames : ReqFeedFromPublicKey(k, n)
  \/ \E s \in Seqs : FeedFromPublicKeyDone(s)
  \/ \E s \in Seqs : FeedBadgeDone(s)
  \/ \E s \in Seqs : SerializeDone(s)
  \/ ReqRequestInvite(1)
  \/ ReqWaitForInvite(1)
  \/ \E s \in Seqs, inv \in Invites : SwarmInvite(s, inv)
  \/ \E s \in Seqs : SwarmWaitFails(s)
  \/ \E s \in Seqs : WaitForInviteAborted(s)
  \/ \E s \in Seqs : WaitForInviteAccepted(s)
  \/ \E s \in Seqs : ChannelFromInviteDone(s)
  \/ \E s \in Seqs : SaveChannelDone(s)
  \/ \E s \in Seqs : InviteBadgeDone(s)

SpecLoops == InitLoaded1 /\ [][NextLoops]_vars

\* -------------------------------------- handle('updateChannelMetadata')
\* Lines 205-215: the request sets metadata.readCount to rc (rc < 0: the
\* metadata of the request has no readCount, the merge keeps the old one)
\* and peerLinks.saveChannel() is awaited.
ReqUpdateChannelMetadata(h, rc) ==
  /\ Alive
  /\ CanIssue
  /\ nextSeq' = nextSeq + 1 /\ UNCHANGED budget
  /\ LET s == nextSeq
         r == NewReq("updateChannelMetadata", h, 0, NoName)
         rq == [req EXCEPT ![s] = r]
         c == ChannelById(channels, h)
     IN IF Gated("updateChannelMetadata") THEN NotReady(s, r)
        ELSE /\ IF c = 0
                THEN /\ Finish(rq, s, "rejected", V("Channel not found", 0))
                     /\ UNCHANGED readCount
                ELSE /\ readCount' = IF rc < 0 THEN readCount
                                     ELSE [readCount EXCEPT ![c] = rc]
                     /\ Suspend(rq, s, "saveMetadata")
             /\ lastResolve' = NoResolve
             /\ UNCHANGED <<chainVars, netPc, isReady, protoVars, loopVars,
                            updatedChannels, waitList, closePc, inviteVars,
                            msgCount, badge>>

\* Lines 215-216: peerLinks.saveChannel() returned; updateBadge() is awaited.
SaveMetadataDone(s) ==
  /\ Alive
  /\ req[s].op = "updateChannelMetadata" /\ req[s].pc = "saveMetadata"
  /\ Suspend(req, s, "metadataBadge")
  /\ lastResolve' = NoResolve
  /\ UNCHANGED <<chainVars, netPc, isReady, protoVars, loopVars, updatedChannels,
                 waitList, closePc, inviteVars, seqVars, countVars, badge>>

\* Lines 216-217 and 603-613: updateBadge() returned.
MetadataBadgeDone(s) ==
  /\ Alive
  /\ req[s].op = "updateChannelMetadata" /\ req[s].pc = "metadataBadge"
  /\ badge' = UnreadSum(channels, msgCount, readCount)
  /\ Finish(req, s, "fulfilled", Undefined)
  /\ lastResolve' = NoResolve
  /\ UNCHANGED <<chainVars, netPc, isReady, protoVars, loopVars, updatedChannels,
                 waitList, closePc, inviteVars, seqVars, countVars>>

\* ----------------------------------------------------------- SpecBadge
\* The unread aggregate, from ready states whose channels hold message
\* counts and read counts drawn from these sets (-1: no readCount).
MessageCounts == {0, 1, 3, 10}
ReadCounts == {-1, 0, 3, 7, 11}
\* Number of IPC requests in a run of the badge specification.
MaxBadgeSeq == 1

InitBadge ==
  /\ netPc = "done"
  /\ isReady = TRUE
  /\ channels \in {{1}, Keys}
  /\ identities = {1}
  /\ stored = Stored(channels, identities)
  /\ chanName = [k \in Keys |-> IF k \notin channels THEN NoName
                                ELSE IF k = 1 THEN General
                                ELSE Candidate(General, k - 1)]
  /\ usedKeys = channels \cup identities
  /\ updateLoops = channels
  /\ loopWait = [k \in Keys |-> IF k \in channels THEN 1 ELSE 0]
  /\ loopBadge = [k \in Keys |-> 0]
  /\ updatedChannels = {}
  /\ waitList = {}
  /\ closePc = "idle"
  /\ pendingInvites = [k \in Keys |-> NoPending]
  /\ issued = 0
  /\ swarmWait = [s \in Seqs |-> "none"]
  /\ req = [s \in Seqs |-> NoReq]
  /\ nextSeq = 1
  /\ budget = MaxBadgeSeq
  /\ responses = [s \in Seqs |-> << >>]
  /\ lastResolve = NoResolve
  /\ msgCount \in [Keys -> MessageCounts]
  /\ readCount \in [Keys -> ReadCounts]
  /\ badge = 0
  /\ chainMapUpdated = FALSE
  /\ chainLoop = "waiting"

NextBadge ==
  \/ \E h \in HexIds, rc \in ReadCounts : ReqUpdateChannelMetadata(h, rc)
  \/ \E s \in Seqs : SaveMetadataDone(s)
  \/ \E s \in Seqs : MetadataBadgeDone(s)
  \/ \E c \in Keys : LoopDelivered(c)
  \/ \E c \in Keys : LoopBroadcast(c)
  \/ \E c \in Keys, k \in Keys : ReqRemoveIdentityPair(HexOf(c), k)
  \/ \E s \in Seqs : RemoveChannelDone(s)
  \/ \E s \in Seqs : RemoveIdentityDone(s)
  \/ \E s \in Seqs : RemoveBadgeDone(s)

SpecBadge == InitBadge /\ [][NextBadge]_vars

\* ----------------------------------------------------------- SpecChain
\* The wait list's three kinds of waiters (init waiting for 'ready', channel
\* updates, chain-map updates), both supervisors and close(), from the state
\* in which the init request has loaded the database. The awaits of close()
\* return and a resumed handler runs on: these steps are fair.
NextChain ==
  \/ NetReady
  \/ \E s \in Seqs : InitReturn(s)
  \/ \E c \in Keys : LoopDelivered(c)
  \/ \E c \in Keys : LoopBroadcast(c)
  \/ \E c \in Keys : LoopWaitFails(c)
  \/ \E updated \in BOOLEAN : ChainUpdated(updated)
  \/ ChainLoopFails
  \/ \E h \in HexIds : ReqWaitForIncomingMessage(h)
  \/ \E s \in Seqs : WaitForIncomingMessageReturn(s)
  \/ ReqWaitForChainMapUpdate
  \/ \E s \in Seqs : WaitForChainMapUpdateReturn(s)
  \/ \E s \in Seqs : WaitTimeout(s)
  \/ CloseStart
  \/ CloseWaitList

FairChain ==
  /\ WF_vars(CloseWaitList)
  /\ \A s \in Seqs : /\ WF_vars(InitReturn(s))
                     /\ WF_vars(WaitForIncomingMessageReturn(s))
                     /\ WF_vars(WaitForChainMapUpdateReturn(s))

InitChain == Loaded(MaxBootSeq)

SpecChain == InitChain /\ [][NextChain]_vars /\ FairChain

\* ------------------------------------------------------------ SpecPoll
\* Callers polling the channels of a ready system while the update loops
\* deliver messages.
NextPoll ==
  \/ \E c \in Keys : LoopDelivered(c)
  \/ \E c \in Keys : LoopBroadcast(c)
  \/ \E c \in Keys : LoopWaitFails(c)
  \/ \E h \in HexIds : ReqWaitForIncomingMessage(h)
  \/ \E s \in Seqs : WaitForIncomingMessageReturn(s)
  \/ \E s \in Seqs : WaitTimeout(s)

InitPoll == Ready(MaxBootSeq)

SpecPoll == InitPoll /\ [][NextPoll]_vars

TypeOK ==
  /\ chainMapUpdated \in BOOLEAN
  /\ chainLoop \in {"none", "waiting", "stopped"}
  /\ netPc \in {"new", "opening", "waitInit", "wokenInit", "done", "exited"}
  /\ isReady \in BOOLEAN
  /\ channels \subseteq Keys
  /\ updateLoops \subseteq Keys
  /\ nextSeq \in 1..(budget + 1)

\* ====================================================== properties
\* The handler of request s has been called and has not settled yet.
Pending(s) == req[s].op # "none" /\ req[s].pc \notin {"done", "rejected"}

\* C1: every request the router receives gets at most one response, tagged
\* with its own seq: none while the handler's promise is pending, the
\* payload it fulfilled with once it fulfils, the error it rejected with
\* once it rejects. A handler's failure is answered like any other outcome
\* and never ends the process: only close() does.
C1_OneResponsePerRequest ==
  /\ \A s \in Seqs :
       /\ Len(responses[s]) <= 1
       /\ (req[s].op = "none" \/ Pending(s)) => responses[s] = << >>
       /\ req[s].pc = "done" =>
            /\ req[s].res \in {"fulfilled", "rejected"}
            /\ responses[s] =
                 << [kind |-> IF req[s].res = "fulfilled" THEN "payload"
                              ELSE "error",
                     val |-> req[s].val] >>
       /\ req[s].pc = "rejected" => Len(responses[s]) = 1
  /\ netPc = "exited" => closePc = "closed"

\* A handler rejected, its request got the error, and a later request was
\* handled and got its payload.
C1_Witness ==
  \E s1, s2 \in Seqs :
    /\ s1 < s2
    /\ req[s1].pc = "done" /\ req[s1].res = "rejected"
    /\ responses[s1] = << [kind |-> "error", val |-> req[s1].val] >>
    /\ req[s2].pc = "done" /\ req[s2].res = "fulfilled"
    /\ responses[s2] = << [kind |-> "payload", val |-> req[s2].val] >>

\* The request with seq s arrives in this step.
Arrives(s) == req[s].op = "none" /\ req'[s].op # "none"

C2_Step ==
  /\ isReady => isReady'
  /\ \A s \in Seqs :
       /\ Arrives(s) =>
            /\ req'[s].pc = "rejected" <=>
                 (~isReady /\ req'[s].op \notin {"init", "erase", "getStatus"})
            /\ req'[s].pc = "rejected" =>
                 /\ responses'[s] =
                      << [kind |-> "error", val |-> V("Not ready", 0)] >>
                 /\ UNCHANGED <<netPc, isReady, protoVars, loopVars,
                                updatedChannels, waitList, closePc,
                                inviteVars, countVars, badge, chainVars>>
       /\ ~Arrives(s) =>
            /\ req'[s].pc = "rejected" => req[s].pc = "rejected"
            /\ req[s].pc = "rejected" =>
                 req'[s] = req[s] /\ responses'[s] = responses[s]

\* C2: while the readiness flag is false a request of any type other than
\* init, erase and getStatus is answered 'Not ready' and its handler is never
\* called (nothing but the response changes, then or later); init, erase and
\* getStatus are never rejected by the gate, and once the flag is true, which
\* it stays, no request is.
C2_ReadinessGate == [][C2_Step]_vars

\* A gated request was answered 'Not ready', the init request was handled
\* before readiness, and a request of a gated type was handled after it.
C2_Witness ==
  \E s1, s2, s3 \in Seqs :
    /\ req[s1].pc = "rejected"
    /\ responses[s1] = << [kind |-> "error", val |-> V("Not ready", 0)] >>
    /\ req[s2].op = "init" /\ req[s2].res = "fulfilled"
    /\ req[s2].val = V("peerId", 0)
    /\ isReady
    /\ req[s3].op \notin {"none", "init", "erase", "getStatus"}
    /\ req[s3].pc # "rejected"

\* The requests registered on a topic of a wait list.
WaitersOn(wl, topic) == {e.who : e \in {f \in wl : f.topic = topic}}

\* Waiter w resumes from its wait in this step.
NewlyWoken(w) ==
  IF w = NetInit THEN netPc # "wokenInit" /\ netPc' = "wokenInit"
  ELSE req[w].pc # "woken" /\ req'[w].pc = "woken"

C3_Step ==
  /\ lastResolve'.called =>
       LET topic == lastResolve'.topic
           on == WaitersOn(waitList, topic)
       IN /\ \A w \in on : NewlyWoken(w)
          /\ \A w \in on \ {NetInit} : req'[w].val = lastResolve'.val
          /\ WaitersOn(waitList', topic) = {}
          /\ \A e \in waitList : e.topic # topic => e \in waitList'
  /\ \A w \in Seqs \cup {NetInit} :
       NewlyWoken(w) =>
         /\ lastResolve'.called
         /\ WLEntry(lastResolve'.topic, w) \in waitList

\* C3: resolve(topic, v) delivers v to exactly the waiters registered on the
\* topic when it is called and empties the topic's list in the same step;
\* waiters of other topics stay registered, with no waiter the call does
\* nothing, and a waiter registered after the call is not resumed by it.
C3_ResolveAtomic == [][C3_Step]_vars

\* One broadcast resumed two handlers that waited on the same topic.
C3_Witness ==
  /\ lastResolve.called /\ lastResolve.topic.t = "update"
  /\ \E s1, s2 \in Seqs :
       /\ s1 # s2
       /\ req[s1].pc = "woken" /\ req[s2].pc = "woken"
       /\ RequestTopic(req[s1].ch) = lastResolve.topic
       /\ RequestTopic(req[s2].ch) = lastResolve.topic
       /\ req[s1].val = lastResolve.val /\ req[s2].val = lastResolve.val


\* Request s is a waitForIncomingMessage call on an existing channel whose
\* handler waits for the channel's broadcast.
WaitsForUpdate(s) ==
  /\ req[s].op = "waitForIncomingMessage"
  /\ req[s].pc = "waitUpdate"

C4_Step ==
  \A s \in Seqs :
    LET c == FromHex(req'[s].ch)
    IN /\ (Arrives(s) /\ req'[s].op = "waitForIncomingMessage"
             /\ req'[s].pc # "rejected" /\ c \in channels) =>
            IF c \in updatedChannels
            THEN /\ req'[s].pc = "done" /\ req'[s].res = "fulfilled"
                 /\ req'[s].val = V("true", 0)
                 /\ c \notin updatedChannels'
                 /\ waitList' = waitList
            ELSE ~WLClosed => /\ req'[s].pc = "waitUpdate"
                              /\ responses'[s] = << >>
       /\ WaitsForUpdate(s) =>
            /\ (/\ lastResolve'.called
                /\ lastResolve'.topic = ChannelTopic(FromHex(req[s].ch))) =>
                 /\ req'[s].pc = "woken"
                 /\ req'[s].val = lastResolve'.val
            /\ req'[s].pc = "done" =>
                 /\ req'[s].res = "rejected"
                 /\ req'[s].val \in {V("Timeout", 0), V("Closed", 0)}
            /\ req'[s].pc \in {"waitUpdate", "woken", "done"}
       /\ (/\ req[s].op = "waitForIncomingMessage"
           /\ req[s].pc = "woken" /\ req'[s].pc = "done") =>
            /\ req'[s].res = "fulfilled"
            /\ req'[s].val \in {V("true", 0), V("false", 0)}
       /\ (/\ req'[s].op = "waitForIncomingMessage"
           /\ req[s].pc # "done" /\ req'[s].pc = "done"
           /\ req'[s].val # V("Channel not found", 0)) =>
            c \notin updatedChannels'

C5_SingleLoopPerChannel ==
  \A c \in Keys :
    /\ loopWait[c] + loopBadge[c] <= 1
    /\ c \in updateLoops <=> loopWait[c] + loopBadge[c] = 1

\* An accepted invite for the existing channel 1 asked for its loop again,
\* after the loop had gone through an iteration and re-issued itself.
C5_Witness ==
  \E s \in Seqs :
    /\ req[s].op = "waitForInvite"
    /\ req[s].pc \in {"serialize", "done"}
    /\ req[s].val = V("channel", 1)
    /\ msgCount[1] > 0
    /\ 1 \in updateLoops /\ loopWait[1] = 1

\* The handler of request s settles in this step.
Settles(s) == req[s].pc # "done" /\ req'[s].pc = "done"

\* The handler of request s deletes the pending entry of its identity key:
\* the last step of an accepted waitForInvite.
Accepts(s) ==
  /\ req[s].op = "waitForInvite"
  /\ req[s].pc = "inviteBadge" /\ req'[s].pc = "serialize"

C6_Step ==
  /\ \A s \in Seqs :
       (/\ Arrives(s) /\ req'[s].op = "requestInvite"
        /\ req'[s].key \in identities
        /\ pendingInvites[req'[s].key].has) =>
         /\ req'[s].pc = "done" /\ req'[s].res = "fulfilled"
         /\ req'[s].val = pendingInvites[req'[s].key].encoded
         /\ responses'[s] = << [kind |-> "payload", val |-> req'[s].val] >>
         /\ UNCHANGED <<pendingInvites, issued, swarmWait>>
  /\ \A k \in Keys :
       /\ (pendingInvites[k].has /\ pendingInvites'[k].has) =>
            /\ pendingInvites'[k].requestId = pendingInvites[k].requestId
            /\ pendingInvites'[k].encoded = pendingInvites[k].encoded
       /\ (pendingInvites[k].has /\ ~pendingInvites'[k].has) =>
            \E s \in Seqs : Accepts(s) /\ req[s].key = k

\* C6: requestInvite is idempotent per identity: while an entry exists for
\* the identity key, a call returns the entry's encoded request and leaves
\* the entry (request id, waiter) and the number of issued requests as they
\* are; the entry's request only changes after an accepted invite deleted it.
C6_RequestInviteIdempotent == [][C6_Step]_vars

\* Two requestInvite calls for one identity returned the same encoded
\* request, the second while a waitForInvite call was waiting on the entry.
C6_Witness ==
  \E s1, s2, w \in Seqs :
    /\ s1 < w /\ w < s2
    /\ req[s1].op = "requestInvite" /\ req[s2].op = "requestInvite"
    /\ req[s1].key = req[s2].key
    /\ req[s1].res = "fulfilled" /\ req[s2].res = "fulfilled"
    /\ req[s1].val = req[s2].val
    /\ pendingInvites[req[s1].key].waiter = w
    /\ swarmWait[w] = "pending"

\* The waitForInvite call s for identity key k is still waiting on the swarm.
StillWaiting(s, k) ==
  /\ req[s].op = "waitForInvite" /\ req[s].key = k
  /\ req[s].pc = "awaitInvite" /\ swarmWait[s] = "pending"

C7_Step ==
  \A s2 \in Seqs :
    /\ (Arrives(s2) /\ req'[s2].op = "waitForInvite"
          /\ req'[s2].pc = "awaitInvite") =>
         \A s1 \in Seqs :
           StillWaiting(s1, req'[s2].key) => swarmWait'[s1] = "cancelled"
    /\ (/\ req[s2].op = "waitForInvite" /\ Settles(s2)
        /\ swarmWait[s2] = "cancelled") =>
         /\ req'[s2].res = "fulfilled" /\ req'[s2].val = V("false", 0)
         /\ responses'[s2] = << [kind |-> "payload", val |-> V("false", 0)] >>

\* C7: when a waitForInvite call starts for an identity while an earlier
\* waitForInvite call for the same identity is still waiting, the earlier
\* wait is cancelled, and a call whose wait was cancelled is answered with
\* the payload false, not with an error.
C7_SecondWaitCancelsFirst == [][C7_Step]_vars

C8_Step ==
  \A s \in Seqs :
    (/\ req[s].op = "removeIdentityPair" /\ Settles(s)
     /\ \E w \in Seqs : StillWaiting(w, req[s].key)) =>
      /\ ~pendingInvites'[req[s].key].has
      /\ \A w \in Seqs : StillWaiting(w, req[s].key) =>
                           swarmWait'[w] = "cancelled"

\* C8: when removeIdentityPair completes for an identity key that has an
\* active invite wait, that wait has been cancelled and no pending-invite
\* entry remains for the key.
C8_RemoveCancelsInvite == [][C8_Step]_vars

\* A channel other than the invite's own holds the name.
Taken(name, inv) ==
  \E c \in channels : chanName[c] = name /\ c # inv.channelPubKey

C9_Step ==
  \A s \in Seqs :
    LET inv == req[s].inv
    IN /\ (/\ req[s].op = "waitForInvite"
           /\ req[s].pc = "awaitInvite" /\ req'[s].pc = "fromInvite") =>
            \E n \in 0..NumKeys :
              /\ req'[s].name = Candidate(inv.channelName, n)
              /\ ~Taken(Candidate(inv.channelName, n), inv)
              /\ \A j \in 0..(n - 1) :
                   Taken(Candidate(inv.channelName, j), inv)
       /\ (/\ req[s].op = "waitForInvite"
           /\ req[s].pc = "fromInvite" /\ req'[s].pc = "saveChannel"
           /\ inv.channelPubKey \notin channels) =>
            chanName'[inv.channelPubKey] = req[s].name

\* C9: the name an accepted invite gives its channel is the first of
\* name, name-1, name-2, ... that no channel holds or that the channel of
\* the invite's own key holds: with 'general' held by key A, an invite for
\* 'general' with key B yields 'general-1' and one with key A 'general'.
C9_ChannelNameProbing == [][C9_Step]_vars

\* Both cases: an invite for 'general' with the key of the existing channel
\* 'general' kept the name, and an invite for 'general' with another key
\* got 'general-1'.
C9_Witness ==
  \E s1, s2 \in Seqs :
    /\ req[s1].op = "waitForInvite" /\ req[s2].op = "waitForInvite"
    /\ req[s1].pc \in {"fromInvite", "saveChannel", "inviteBadge",
                       "serialize", "done"}
    /\ req[s1].inv = Invite(General, 1) /\ req[s1].name = General
    /\ req[s2].inv = Invite(General, 2)
    /\ req[s2].name = Candidate(General, 1)
    /\ req[s2].pc \in {"saveChannel", "inviteBadge", "serialize", "done"}
    /\ chanName[1] = General /\ chanName[2] = Candidate(General, 1)

\* What channel c adds to the unread aggregate: the messages beyond the
\* read count, a missing read count being 0, and nothing if there are none.
Unread(c) ==
  LET read == IF readCount[c] = -1 THEN 0 ELSE readCount[c]
  IN IF c \in channels /\ msgCount[c] > read THEN msgCount[c] - read ELSE 0

\* The sum of Unread over the keys 1..n.
RECURSIVE UnreadUpTo(_)
UnreadUpTo(n) == IF n = 0 THEN 0 ELSE Unread(n) + UnreadUpTo(n - 1)

\* updateBadge() returns in this step and hands its sum to the sink.
BadgeForwarded ==
  \/ \E c \in Keys : loopBadge'[c] < loopBadge[c]
  \/ \E s \in Seqs :
       /\ req[s].pc \in {"metadataBadge", "removeBadge", "feedBadge",
                         "inviteBadge"}
       /\ req'[s].pc # req[s].pc

C10_Step ==
  /\ BadgeForwarded =>
       /\ badge' = UnreadUpTo(NumKeys)
       /\ badge' >= 0
       /\ (/\ channels = {1, 2}
           /\ msgCount[1] = 10 /\ readCount[1] = 7
           /\ msgCount[2] = 3 /\ readCount[2] = 3) => badge' = 3
  /\ ~BadgeForwarded => badge' = badge

OnWaitList(s) == \E e \in waitList : e.who = s

\* The error response of a waiter that close() failed.
ClosedError == << [kind |-> "error", val |-> V("Closed", 0)] >>

C11_CloseStep ==
  (closePc = "closing" /\ closePc' = "closed") =>
    \A s \in Seqs :
      OnWaitList(s) => /\ req'[s].pc = "done" /\ req'[s].res = "rejected"
                       /\ responses'[s] = ClosedError

ChainBroadcast ==
  lastResolve'.called /\ lastResolve'.topic = ChainTopic

C20_Step ==
  /\ (~chainMapUpdated /\ chainMapUpdated') => ChainBroadcast
  /\ ChainBroadcast =>
       /\ chainLoop = "waiting" /\ chainLoop' = "waiting"
       /\ chainMapUpdated'
       /\ \A s \in Seqs : (req[s].pc = "waitChain" /\ OnWaitList(s)) =>
                            req'[s].pc = "woken"
  /\ chainLoop = "stopped" =>
       /\ chainLoop' = "stopped"
       /\ chainMapUpdated' => chainMapUpdated
       /\ ~ChainBroadcast
  /\ (chainLoop = "waiting" /\ chainLoop' = "stopped") =>
       /\ ~ChainBroadcast
       /\ UNCHANGED <<chainMapUpdated, netPc, isReady, protoVars, loopVars,
                      updatedChannels, waitList, closePc, inviteVars, req,
                      seqVars, responses, countVars, badge>>

\* C20: the chain dirty flag is set only in a step in which the running
\* chain supervisor broadcasts on 'chain-map-update', and the broadcast sets
\* it; a step of the supervisor without a broadcast changes nothing; and
\* once the protocol's wait has failed the supervisor stays stopped: the flag
\* is never set and the topic never broadcast again, and the failure resets
\* no registry or other state.
C20_ChainSupervisor == [][C20_Step]_vars

\* The supervisor stopped after a broadcast that a request got, and a later
\* waitForChainMapUpdate request waits with nothing left to wake it.
C20_Witness ==
  /\ chainLoop = "stopped"
  /\ \E s1, s2 \in Seqs :
       /\ req[s1].op = "waitForChainMapUpdate" /\ req[s1].res = "fulfilled"
       /\ req[s2].op = "waitForChainMapUpdate" /\ req[s2].pc = "waitChain"
       /\ s1 < s2

\* Request s is a waitForIncomingMessage call on channel c that has been
\* answered.
Answered(s, c) ==
  /\ req[s].op = "waitForIncomingMessage" /\ FromHex(req[s].ch) = c
  /\ req[s].pc = "done"

Iterations(c) == loopWait[c] + loopBadge[c]

\* runUpdateLoop(c) is called from outside the loop in this step: by
\* init(), or by a handler that returns the channel.
LoopRequested(c) ==
  \/ netPc = "wokenInit" /\ netPc' = "done"
  \/ \E s \in Seqs : /\ req[s].pc \in {"create", "feedBadge", "inviteBadge"}
                     /\ req'[s].pc = "serialize"
                     /\ req'[s].val = V("channel", c)

C13_Step ==
  \A c \in Keys :
    /\ (loopWait'[c] < loopWait[c] /\ loopBadge'[c] = loopBadge[c]) =>
         /\ c \notin updateLoops' /\ loopWait'[c] = 0
         /\ updatedChannels' = updatedChannels
         /\ ~lastResolve'.called
         /\ waitList' = waitList
    /\ (loopBadge'[c] < loopBadge[c] /\ ~lastResolve'.called) =>
         /\ c \notin updateLoops' /\ loopWait'[c] = 0 /\ loopBadge'[c] = 0
         /\ updatedChannels' = updatedChannels
         /\ waitList' = waitList
    /\ (c \notin updateLoops /\ c \in updateLoops') => LoopRequested(c)
    /\ (Iterations(c) = 0 /\ loopWait'[c] + loopBadge'[c] > 0) =>
         LoopRequested(c)

\* C13: when the channel's wait fails, or the iteration fails after it, the
\* iteration removes the channel's registry entry, issues no new wait, sets
\* no dirty flag and resolves nothing; the channel gets a loop again only
\* when runUpdateLoop is called for it from outside the loop.
C13_LoopFailureStops == [][C13_Step]_vars

\* The loop of an existing channel ended after it had delivered a message.
C13_Witness ==
  \E c \in Keys :
    /\ c \in channels /\ c \notin updateLoops /\ Iterations(c) = 0
    /\ msgCount[c] > 0 /\ c \in updatedChannels

\* A removeIdentityPair handler that removed channel c is on its way to
\* line 194.
RemovalUnderWay(c) ==
  \E r \in Seqs : /\ req'[r].op = "removeIdentityPair"
                  /\ req'[r].val = V("channel", c)
                  /\ req'[r].pc \in {"removeChannel", "removeIdentity",
                                     "removeBadge"}

C14_Step ==
  \A c \in Keys :
    (Iterations(c) > 0 /\ loopWait'[c] + loopBadge'[c] = 0) =>
      \A s \in Seqs :
        (WaitsForUpdate(s) /\ FromHex(req[s].ch) = c) =>
          \/ req'[s].pc = "woken" /\ req'[s].val = V("false", 0)
          \/ RemovalUnderWay(c)

\* C14: when a channel's supervisor loop terminates, every
\* waitForIncomingMessage request that waits on the channel is resumed with
\* false, by the terminating step or by the removeIdentityPair handler that
\* removed the channel, instead of staying blocked until its timeout.
C14_WaitersAnsweredOnTermination == [][C14_Step]_vars

\* C15: at most one swarm invite wait per identity key is un-cancelled, and
\* the pending entry's waiter field refers to it.
C15_SingleInviteWait ==
  \A k \in Keys :
    /\ Cardinality({s \in Seqs : StillWaiting(s, k)}) <= 1
    /\ \A s \in Seqs : StillWaiting(s, k) => pendingInvites[k].waiter = s

\* C16: removeIdentityPair never fails: whatever the channelId, the
\* identityKey and the pending invite, the request is answered with a
\* success response.
C16_RemoveNeverFails ==
  \A s \in Seqs :
    (req[s].op = "removeIdentityPair" /\ req[s].pc = "done") =>
      /\ req[s].res = "fulfilled"
      /\ responses[s] = << [kind |-> "payload", val |-> Undefined] >>

\* The invite wait of request s ended without an invite and the handler has
\* not resumed yet.
WaitEnded(s) ==
  /\ req[s].op = "waitForInvite" /\ req[s].pc = "awaitInvite"
  /\ swarmWait[s] \in {"cancelled", "failed"}

C17_Step ==
  /\ \A s \in Seqs :
       (WaitEnded(s) /\ req'[s] # req[s]) =>
         LET k == req[s].key
         IN /\ req'[s].pc = "done" /\ req'[s].res = "fulfilled"
            /\ req'[s].val = V("false", 0)
            /\ responses'[s] = << [kind |-> "payload", val |-> V("false", 0)] >>
            /\ pendingInvites'[k].waiter # s
            /\ (pendingInvites[k].has
                /\ pendingInvites[k].requestId = req[s].val.n) =>
                 pendingInvites'[k].waiter = 0
            /\ \A j \in Keys :
                 /\ pendingInvites'[j].has = pendingInvites[j].has
                 /\ pendingInvites'[j].requestId = pendingInvites[j].requestId
                 /\ pendingInvites'[j].encoded = pendingInvites[j].encoded
            /\ UNCHANGED <<issued, swarmWait>>
  /\ \A s \in Seqs :
       (/\ Arrives(s) /\ req'[s].op = "waitForInvite" /\ isReady
        /\ req'[s].key \in identities
        /\ pendingInvites[req'[s].key].has) =>
         LET k == req'[s].key
         IN /\ req'[s].pc = "awaitInvite"
            /\ req'[s].val = V("entry", pendingInvites[k].requestId)
            /\ swarmWait'[s] = "pending"
            /\ pendingInvites' = [pendingInvites EXCEPT ![k].waiter = s]

\* C17: a waitForInvite handler whose swarm wait was cancelled or failed (an
\* error or a timeout of the swarm) is answered with the payload false and
\* never with an error; the step clears the entry's waiter reference and
\* leaves every entry's presence, requestId and encoded request as they are;
\* a waitForInvite arriving while the entry exists starts a new swarm wait
\* on the entry's requestId.
C17_AbortedWaitKeepsRequest == [][C17_Step]_vars

\* A wait failed and was answered false; a later requestInvite returned the
\* request of the first one, and a later waitForInvite waits on the same
\* requestId.
C17_Witness ==
  \E s1, s2, s3, s4 \in Seqs :
    /\ s1 < s2 /\ s2 < s3 /\ s3 < s4
    /\ req[s1].op = "requestInvite" /\ req[s1].res = "fulfilled"
    /\ req[s2].op = "waitForInvite" /\ req[s2].key = req[s1].key
    /\ req[s2].res = "fulfilled" /\ req[s2].val = V("false", 0)
    /\ swarmWait[s2] = "failed"
    /\ req[s3].op = "requestInvite" /\ req[s3].key = req[s1].key
    /\ req[s3].res = "fulfilled" /\ req[s3].val = req[s1].val
    /\ req[s4].op = "waitForInvite" /\ req[s4].key = req[s1].key
    /\ req[s4].pc = "awaitInvite" /\ swarmWait[s4] = "pending"
    /\ pendingInvites[req[s1].key].waiter = s4
    /\ Encode(req[s4].val.n) = req[s1].val

C18_Step ==
  /\ \A s \in Seqs :
       (/\ Arrives(s) /\ req'[s].op = "waitForInvite" /\ isReady
        /\ req'[s].key \in identities
        /\ ~pendingInvites[req'[s].key].has) =>
         /\ req'[s].pc = "done" /\ req'[s].res = "rejected"
         /\ req'[s].val = V("No pending invites", 0)
         /\ responses'[s] = << [kind |-> "error", val |-> req'[s].val] >>
         /\ UNCHANGED <<swarmWait, pendingInvites, issued>>
  /\ \A s \in Seqs :
       (swarmWait[s] # "pending" /\ swarmWait'[s] = "pending") =>
         /\ Arrives(s) /\ req'[s].op = "waitForInvite"
         /\ pendingInvites[req'[s].key].has
  /\ \A s \in Seqs :
       /\ Accepts(s) => ~pendingInvites'[req[s].key].has
       /\ (req[s].op = "waitForInvite" /\ req[s].pc # "serialize"
           /\ req'[s].pc = "serialize") => Accepts(s)
       /\ (req[s].op = "waitForInvite" /\ Settles(s)
           /\ req'[s].res = "fulfilled" /\ req'[s].val # V("false", 0)) =>
            /\ req[s].pc = "serialize"
            /\ req'[s].val.t = "channel"
  /\ \A s \in Seqs :
       (/\ Arrives(s) /\ req'[s].op = "requestInvite" /\ isReady
        /\ req'[s].key \in identities
        /\ ~pendingInvites[req'[s].key].has) =>
         /\ issued' = issued + 1
         /\ req'[s].res = "fulfilled"
         /\ req'[s].val = Encode(issued + 1)
         /\ pendingInvites'[req'[s].key] =
              [has |-> TRUE, requestId |-> issued + 1,
               encoded |-> Encode(issued + 1), waiter |-> 0]
         /\ \A s0 \in Seqs :
              (req[s0].op = "requestInvite" /\ req[s0].res = "fulfilled") =>
                req[s0].val # req'[s].val

\* C18: a waitForInvite that arrives while the identity has no pending entry
\* is answered with the error 'No pending invites' and starts no swarm wait
\* (a swarm wait only starts for an existing entry); the step after which an
\* accepted waitForInvite returns its channel leaves no pending entry for the
\* identity key, and a requestInvite that arrives without an entry issues a
\* new request, different from every request returned before.
C18_WaitNeedsRequest == [][C18_Step]_vars

\* An invite was accepted and answered with the channel, a waitForInvite
\* without an entry was rejected, and the next requestInvite of the identity
\* returned another request than the first one.
C18_Witness ==
  \E s1, s2, s3, s4 \in Seqs :
    /\ req[s1].op = "requestInvite" /\ req[s1].res = "fulfilled"
    /\ req[s2].op = "waitForInvite" /\ req[s2].key = req[s1].key
    /\ req[s2].res = "fulfilled" /\ req[s2].val.t = "channel"
    /\ req[s3].op = "waitForInvite" /\ req[s3].key = req[s1].key
    /\ req[s3].res = "rejected"
    /\ req[s3].val = V("No pending invites", 0)
    /\ s1 < s2 /\ s2 < s3 /\ s3 < s4
    /\ req[s4].op = "requestInvite" /\ req[s4].key = req[s1].key
    /\ req[s4].res = "fulfilled" /\ req[s4].val # req[s1].val

C19_Step ==
  /\ (netPc = "wokenInit" /\ netPc' = "done") =>
       \A c \in channels' :
         c \in updateLoops' /\ loopWait'[c] + loopBadge'[c] = 1
  /\ \A c \in Keys :
       (LoopRequested(c) /\ c \in channels') =>
         c \in updateLoops' /\ loopWait'[c] + loopBadge'[c] = 1
  /\ \A s \in Seqs :
       (/\ req[s].op \in {"createIdentityPair", "feedFromPublicKey",
                          "waitForInvite"}
        /\ Settles(s) /\ req'[s].res = "fulfilled"
        /\ req'[s].val # V("false", 0)) =>
         /\ req[s].pc = "serialize" /\ req'[s].val = req[s].val
         /\ req'[s].val.t = "channel"
  /\ \A s \in Seqs :
       (req[s].pc # "serialize" /\ req'[s].pc = "serialize") =>
         LoopRequested(req'[s].val.n)
  /\ \A c \in Keys :
       (c \in updateLoops /\ c \notin updateLoops') =>
         /\ loopWait'[c] + loopBadge'[c] = 0
         /\ loopWait'[c] < loopWait[c] \/ loopBadge'[c] < loopBadge[c]

NextBoot ==
  \/ NetInitStart
  \/ NetWaitInit
  \/ NetReady
  \/ ReqInit
  \/ \E s \in Seqs, ok \in BOOLEAN : InitLoaded(s, ok)
  \/ \E s \in Seqs : InitReturn(s)
  \/ ReqGetStatus
  \/ \E s \in Seqs : StatusDone(s)

FairBoot ==
  /\ WF_vars(NetInitStart)
  /\ WF_vars(NetWaitInit)
  /\ WF_vars(NetReady)
  /\ \A s \in Seqs : WF_vars(\E ok \in BOOLEAN : InitLoaded(s, ok))
  /\ \A s \in Seqs : WF_vars(InitReturn(s))
  /\ \A s \in Seqs : WF_vars(StatusDone(s))

SpecBoot == Init /\ [][NextBoot]_vars /\ FairBoot

\* The init request s loaded its passphrase and waits for 'ready'.
LoadedInit(s) == req[s].op = "init" /\ req[s].pc = "waitReady"

\* C21: every init request whose passphrase loaded is eventually answered,
\* whenever it arrives relative to Network.init() and to other init
\* requests.
C21_InitAnswered ==
  \A s \in Seqs : LoadedInit(s) ~> (req[s].pc = "done")

\* The waitForChainMapUpdate call s waits on 'chain-map-update'.
WaitsForChain(s) ==
  /\ req[s].op = "waitForChainMapUpdate"
  /\ req[s].pc = "waitChain"

C22_Step ==
  /\ ChainBroadcast => chainMapUpdated'
  /\ \A s \in Seqs :
       /\ (Arrives(s) /\ req'[s].op = "waitForChainMapUpdate"
           /\ req'[s].pc # "rejected") =>
            IF chainMapUpdated
            THEN /\ req'[s].pc = "done" /\ req'[s].res = "fulfilled"
                 /\ responses'[s] = << [kind |-> "payload", val |-> Undefined] >>
                 /\ ~chainMapUpdated'
                 /\ waitList' = waitList
            ELSE ~WLClosed =>
                   /\ req'[s].pc = "waitChain"
                   /\ responses'[s] = << >>
                   /\ WLEntry(ChainTopic, s) \in waitList'
                   /\ ~chainMapUpdated'
       /\ WaitsForChain(s) =>
            /\ ChainBroadcast <=> req'[s].pc = "woken"
            /\ req'[s].pc = "done" =>
                 /\ req'[s].res = "rejected"
                 /\ req'[s].val \in {V("Timeout", 0), V("Closed", 0)}
            /\ req'[s].pc \in {"waitChain", "woken", "done"}
            /\ req'[s].pc = "waitChain" => responses'[s] = << >>
       /\ (req[s].op = "waitForChainMapUpdate" /\ Settles(s)
           /\ req'[s].res = "fulfilled") =>
            /\ ~chainMapUpdated'
            /\ req'[s].val = Undefined

\* C22: a chain-map broadcast sets the global flag; a waitForChainMapUpdate
\* call that finds the flag set clears it and returns at once without
\* registering a waiter; one that finds it clear registers on
\* 'chain-map-update' and gets no response until the supervisor's next
\* broadcast resumes it or the wait ends with its timeout (or the close
\* error); and the flag is clear whenever a call returns successfully.
C22_ChainDirtyFlag == [][C22_Step]_vars

\* With the supervisor running, one call has returned successfully and a
\* later one is blocked with the flag clear.
C22_Witness ==
  /\ chainLoop = "waiting" /\ ~chainMapUpdated
  /\ \E s1, s2 \in Seqs :
       /\ s1 < s2
       /\ req[s1].op = "waitForChainMapUpdate" /\ req[s1].res = "fulfilled"
       /\ responses[s1] = << [kind |-> "payload", val |-> Undefined] >>
       /\ WaitsForChain(s2)
       /\ WLEntry(ChainTopic, s2) \in waitList

====
